---- MODULE Spec2Model ----
(***************************************************************************)
(* Model of the Preprocessing service (ADEPT-ML/Preprocessing).            *)
(*                                                                         *)
(* src/src/preprocessing.py holds the table passes (merge_duplicate_sensors,*)
(* remove_nan_dict, remove_unwanted_rows, remove_leftover_sensors,          *)
(* remove_empty_buildings, interpolate_dict) and the ingestion             *)
(* json_to_buildings; src/main.py holds the two request handlers           *)
(* clean_data and interpolate_data and the JSON encoder.                   *)
(*                                                                         *)
(* A cell of a table is <<>> (NaN, no reading) or <<v>> (the reading v).   *)
(* A DataFrame is [index, keys, col]: the row labels, the column names in  *)
(* column order, and the cells of each column in row order.                *)
(***************************************************************************)
EXTENDS Integers, Sequences, FiniteSets, TLC

VARIABLES
    buildings,   \* the collection a pass works on (dict name -> Building)
    before,      \* that collection as it was before the last pass
    op,          \* the last pass applied
    threshold,   \* the threshold argument of the last pass
    payload,     \* the body of the request being served
    status,      \* HTTP status of the last response (0: none yet)
    body,        \* the body of the last response
    handler,     \* the handler that produced the last response
    runs,        \* how many responses were produced from this input
    prevBody     \* the body of the response before the last one

vars == <<buildings, before, op, threshold, payload, status, body, handler, runs, prevBody>>

(***************************************************************************)
(* Bounds and input universes                                              *)
(***************************************************************************)
\* rows of the tables the single passes are applied to
MaxRows == 2
\* largest threshold argument tried (the smallest is -1)
MaxThreshold == 2
\* rows of the tables given to interpolate_dict
InterpolateRows == 3
\* rows of the tables sent to the request handlers
ServiceRows == 10

NaN == <<>>
ColumnKeys == <<"T1", "T2", "T3">>
Readings == {1, 2}
Thresholds == (0 - 1)..MaxThreshold

Min(a, b) == IF a < b THEN a ELSE b
Range(s) == {s[x] : x \in DOMAIN s}
Prefix(s, n) == [x \in 1..n |-> s[x]]

(***************************************************************************)
(* DataFrame helpers (pandas operations the passes call)                   *)
(***************************************************************************)
\* [e for e in building.dataframe[key] if e == e]: NaN is the one value
\* that is not equal to itself
NonMissingKeepsNaN(column) == column
NonMissing(column) == SelectSeq(column, LAMBDA e : e # NaN)

\* {e for e in building.dataframe[key] if e == e}
UniqueValues(column) == {column[r] : r \in DOMAIN column} \ {NaN}

\* DataFrame.drop(columns=..., inplace=True), for a set of keys
DropColumns(df, dropped) ==
    [index |-> df.index,
     keys  |-> SelectSeq(df.keys, LAMBDA k : k \notin dropped),
     col   |-> [k \in (DOMAIN df.col) \ dropped |-> df.col[k]]]

(***************************************************************************)
(* merge_duplicate_sensors                                                 *)
(***************************************************************************)
\* diff_entries: the positions where the two lists differ (the code builds
\* it only for lists of equal length)
DiffEntries(l1, l2) == {c \in 1..Min(Len(l1), Len(l2)) : l1[c] # l2[c]}

\* the body of the inner loop: whether the pair (i, j) marks keys[j]
MarksNoLengthCheck(l1, l2, thr) ==
    \/ l1 = l2
    \/ Cardinality(DiffEntries(l1, l2)) < thr
MarksInverted(l1, l2, thr) ==
    /\ Len(l1) = Len(l2)
    /\ \/ l1 = l2
       \/ Cardinality(DiffEntries(l1, l2)) >= thr
Marks(l1, l2, thr) ==
    /\ Len(l1) = Len(l2)
    /\ \/ l1 = l2
       \/ Cardinality(DiffEntries(l1, l2)) < thr

\* the pairs (i, j), i < j, whose comparison marks keys[j]; every i is a
\* comparison source, marked or not
MarkingPairs(df, thr) ==
    {p \in (1..Len(df.keys)) \X (1..Len(df.keys)) :
        /\ p[1] < p[2]
        /\ Marks(NonMissing(df.col[df.keys[p[1]]]),
                 NonMissing(df.col[df.keys[p[2]]]), thr)}

\* marked_for_deletion after the two loops
RECURSIVE MarkedSkippingMarked(_, _, _)
MarkedSkippingMarked(df, thr, n) ==
    IF n = 0 THEN {}
    ELSE LET m == MarkedSkippingMarked(df, thr, n - 1)
         IN  IF \E i \in 1..(n - 1) :
                    /\ df.keys[i] \notin m
                    /\ <<i, n>> \in MarkingPairs(df, thr)
             THEN m \cup {df.keys[n]}
             ELSE m
MarkedForDeletionSkipping(df, thr) == MarkedSkippingMarked(df, thr, Len(df.keys))
MarkedForDeletionFirst(df, thr) == {df.keys[p[1]] : p \in MarkingPairs(df, thr)}
MarkedForDeletion(df, thr) == {df.keys[p[2]] : p \in MarkingPairs(df, thr)}

merge_duplicate_sensors(data, thr) ==
    [n \in DOMAIN data |->
        [data[n] EXCEPT !.dataframe = DropColumns(@, MarkedForDeletion(@, thr))]]

(***************************************************************************)
(* the column filters, the reconciler and the building filter              *)
(***************************************************************************)
\* DataFrame.dropna(axis=1, how="all", inplace=True)
remove_nan_dict(data) ==
    [n \in DOMAIN data |->
        [data[n] EXCEPT !.dataframe =
            DropColumns(@, {k \in DOMAIN @.col : NonMissing(@.col[k]) = <<>>})]]

UnwantedInclusive(column, thr) == Cardinality(UniqueValues(column)) <= thr
Unwanted(column, thr) == Cardinality(UniqueValues(column)) < thr

remove_unwanted_rows(data, thr) ==
    [n \in DOMAIN data |->
        [data[n] EXCEPT !.dataframe =
            DropColumns(@, {k \in DOMAIN @.col : Unwanted(@.col[k], thr)})]]

KeepsEverySensor(s, df) == TRUE
HasData(s, df) == s.type \in DOMAIN df.col

remove_leftover_sensors(data) ==
    [n \in DOMAIN data |->
        [data[n] EXCEPT !.sensors =
            SelectSeq(@, LAMBDA s : HasData(s, data[n].dataframe))]]

remove_empty_buildings(data) ==
    [n \in {k \in DOMAIN data : Len(data[k].sensors) > 0} |-> data[n]]

(***************************************************************************)
(* interpolate_dict: DataFrame.interpolate(method='linear',                *)
(* limit_direction='both'). method='linear' ignores the index and treats   *)
(* the rows as equally spaced; a gap before the first or after the last    *)
(* reading takes the nearest reading; a column without readings stays.     *)
(* Readings are counted in units of 1/Resolution, so the division is exact.*)
(***************************************************************************)
RECURSIVE Factorial(_)
Factorial(n) == IF n <= 1 THEN 1 ELSE n * Factorial(n - 1)
Resolution == Factorial(InterpolateRows - 1)

Max(S) == CHOOSE x \in S : \A y \in S : y <= x
Least(S) == CHOOSE x \in S : \A y \in S : x <= y
ValidBefore(column, k) == {p \in 1..(k - 1) : column[p] # NaN}
ValidAfter(column, k) == {q \in (k + 1)..Len(column) : column[q] # NaN}

\* the value written at row k of a column whose row k is NaN
PadFill(column, k) ==
    LET b == ValidBefore(column, k)
        a == ValidAfter(column, k)
    IN  IF b = {} /\ a = {} THEN NaN
        ELSE IF b = {} THEN column[Least(a)]
        ELSE column[Max(b)]
LinearFill(column, k) ==
    LET b == ValidBefore(column, k)
        a == ValidAfter(column, k)
    IN  IF b = {} /\ a = {} THEN NaN
        ELSE IF b = {} THEN column[Least(a)]
        ELSE IF a = {} THEN column[Max(b)]
        ELSE LET p == Max(b)
                 q == Least(a)
                 vp == column[p][1]
                 vq == column[q][1]
             IN  <<vp + ((vq - vp) * (k - p)) \div (q - p)>>

Interpolate(column) ==
    [k \in 1..Len(column) |->
        IF column[k] # NaN THEN column[k] ELSE LinearFill(column, k)]

interpolate_dict(data) ==
    [n \in DOMAIN data |->
        [data[n] EXCEPT !.dataframe.col = [k \in DOMAIN @ |-> Interpolate(@[k])]]]

(***************************************************************************)
(* The passes applied to an ingested collection                            *)
(***************************************************************************)
Sensor(type) == [type |-> type, desc |-> "d", unit |-> "C"]

\* pd.to_datetime(ms, unit='ms') and the epoch in ms written back by to_json.
\* pandas counts nanoseconds; the model counts microseconds, which keeps the
\* offsets used here within TLC's 32-bit integers.
ToDatetime(ms) == ms * 1000
ToEpochMs(t) == t \div 1000

Columns(rows, readings) == [1..rows -> {NaN} \cup {<<v>> : v \in readings}]

\* a DataFrame of the columns c (a function from its keys, the first ones
\* of ColumnKeys) on rows at the timestamps 0, 1000, ... ms
Frame(rows, c) ==
    [index |-> [r \in 1..rows |-> ToDatetime((r - 1) * 1000)],
     keys  |-> Prefix(ColumnKeys, Cardinality(DOMAIN c)),
     col   |-> c]

Building(name, sensors, df) == [name |-> name, sensors |-> sensors, dataframe |-> df]

SensorLists == {<<>>, <<Sensor("T1"), Sensor("T2"), Sensor("T3")>>}

NoCollection == [n \in {} |-> 0]
NoPayload == [kind |-> "none", buildings |-> NoCollection]

Idle ==
    /\ payload = NoPayload
    /\ status = 0
    /\ body = NoCollection
    /\ handler = "none"
    /\ runs = 0
    /\ prevBody = NoCollection

Init ==
    /\ \E n \in 0..Len(ColumnKeys), s \in SensorLists :
        \E c \in [Range(Prefix(ColumnKeys, n)) -> Columns(MaxRows, Readings)] :
            buildings = [b \in {"B1"} |-> Building("B1", s, Frame(MaxRows, c))]
    /\ before = buildings
    /\ op = "json_to_buildings"
    /\ threshold = 0
    /\ Idle

Pass(name, thr, result) ==
    /\ op = "json_to_buildings"
    /\ before' = buildings
    /\ buildings' = result
    /\ op' = name
    /\ threshold' = thr
    /\ UNCHANGED <<payload, status, body, handler, runs, prevBody>>

MergeDuplicateSensors ==
    \E thr \in Thresholds :
        Pass("merge_duplicate_sensors", thr, merge_duplicate_sensors(buildings, thr))

RemoveNanDict == Pass("remove_nan_dict", 0, remove_nan_dict(buildings))

RemoveUnwantedRows ==
    \E thr \in Thresholds :
        Pass("remove_unwanted_rows", thr, remove_unwanted_rows(buildings, thr))

RemoveLeftoverSensors ==
    Pass("remove_leftover_sensors", 0, remove_leftover_sensors(buildings))

RemoveEmptyBuildings ==
    Pass("remove_empty_buildings", 0, remove_empty_buildings(buildings))

InterpolateDict == Pass("interpolate_dict", 0, interpolate_dict(buildings))

Next ==
    \/ MergeDuplicateSensors
    \/ RemoveNanDict
    \/ RemoveUnwantedRows
    \/ RemoveLeftoverSensors
    \/ RemoveEmptyBuildings
    \/ InterpolateDict

Spec == Init /\ [][Next]_vars

(***************************************************************************)
(* interpolate_dict applied to tables with gaps, on rows whose timestamps  *)
(* are 1000 or 2000 ms apart                                               *)
(***************************************************************************)
GapReadings == {1 * Resolution, 3 * Resolution}

\* the timestamps, in ms, of rows that follow each other at the given gaps
RECURSIVE Timestamps(_, _)
Timestamps(gaps, r) == IF r <= 1 THEN 0 ELSE Timestamps(gaps, r - 1) + gaps[r - 1] * 1000

InitInterpolate ==
    /\ \E n \in 1..2, gaps \in [1..(InterpolateRows - 1) -> {1, 2}] :
        \E c \in [Range(Prefix(ColumnKeys, n)) -> Columns(InterpolateRows, GapReadings)] :
            buildings = [b \in {"B1"} |->
                Building("B1", <<Sensor("T1"), Sensor("T2")>>,
                    [Frame(InterpolateRows, c) EXCEPT !.index =
                        [r \in 1..InterpolateRows |-> ToDatetime(Timestamps(gaps, r))]])]
    /\ before = buildings
    /\ op = "json_to_buildings"
    /\ threshold = 0
    /\ Idle

NextInterpolate == InterpolateDict

SpecInterpolate == InitInterpolate /\ [][NextInterpolate]_vars

(***************************************************************************)
(* The request handlers of src/main.py                                     *)
(*                                                                         *)
(* A request body is [kind, buildings]: kind "empty" is a falsy payload,   *)
(* "not_json" a string json.loads rejects, "object" a JSON object mapping  *)
(* building names to records.  A JSON record carries the set of keys it    *)
(* has (fields); the value under an absent key is never read.  The         *)
(* "dataframe" of a record is a string: valid tells whether it parses to a *)
(* table, and index, keys and col are the table it parses to.  Readings    *)
(* are counted in units of 1e-11.                                          *)
(***************************************************************************)
MergeThreshold == 10
RowThreshold == 10

BuildingFields == {"name", "sensors", "dataframe"}
SensorFields == {"type", "desc", "unit"}

\* json_to_buildings raises (KeyError, JSONDecodeError, ValueError)
IngestionRaises(data) ==
    \E k \in DOMAIN data :
        \/ "sensors" \notin data[k].fields
        \/ \E i \in DOMAIN data[k].sensors : ~(SensorFields \subseteq data[k].sensors[i].fields)
        \/ "dataframe" \notin data[k].fields
        \/ ~data[k].dataframe.valid

json_to_buildings(data) ==
    [k \in DOMAIN data |->
        Building(k,
            [i \in DOMAIN data[k].sensors |->
                [type |-> data[k].sensors[i].type,
                 desc |-> data[k].sensors[i].desc,
                 unit |-> data[k].sensors[i].unit]],
            [index |-> [r \in DOMAIN data[k].dataframe.index |->
                            ToDatetime(data[k].dataframe.index[r])],
             keys  |-> data[k].dataframe.keys,
             col   |-> data[k].dataframe.col])]

\* DataFrame.to_json() writes a double with double_precision=10 decimal
\* places (ujson: the 11th decimal rounds to the nearest, a tie away from
\* zero when the 10th is odd or the fraction is 0) and NaN as null
ToJsonDouble(cell) ==
    IF cell = NaN THEN NaN
    ELSE LET frac == cell[1] \div 10
             diff == cell[1] % 10
         IN  IF diff > 5 \/ (diff = 5 /\ (frac = 0 \/ frac % 2 = 1))
             THEN <<(frac + 1) * 10>>
             ELSE <<frac * 10>>

\* JSONEncoder.default on a DataFrame: o.to_json()
DataFrameToJson(df) ==
    [valid |-> TRUE,
     index |-> [r \in DOMAIN df.index |-> ToEpochMs(df.index[r])],
     keys  |-> df.keys,
     col   |-> [k \in DOMAIN df.col |->
                    [r \in DOMAIN df.col[k] |-> ToJsonDouble(df.col[k][r])]]]

\* json.dumps(data, cls=JSONEncoder): dataclasses.asdict on each Building
Dumps(data) ==
    [k \in DOMAIN data |->
        [fields    |-> BuildingFields,
         name      |-> data[k].name,
         sensors   |-> [i \in DOMAIN data[k].sensors |->
                            [fields |-> SensorFields,
                             type   |-> data[k].sensors[i].type,
                             desc   |-> data[k].sensors[i].desc,
                             unit   |-> data[k].sensors[i].unit]],
         dataframe |-> DataFrameToJson(data[k].dataframe)]]

\* the passes of clean_data, in its order
CleanPipeline(data) ==
    remove_empty_buildings(
        remove_leftover_sensors(
            remove_unwanted_rows(
                remove_nan_dict(merge_duplicate_sensors(data, MergeThreshold)),
                RowThreshold)))

Response(code, result) == [status |-> code, body |-> result]

\* what a handler answers, where processed is the collection its pipeline
\* leaves when nothing raises
Handle(p, processed) ==
    IF p.kind = "empty" THEN Response(400, NoCollection)
    ELSE IF p.kind = "not_json" THEN Response(500, NoCollection)
    ELSE IF IngestionRaises(p.buildings) THEN Response(500, NoCollection)
    ELSE Response(200, Dumps(processed))

clean_data(p) == Handle(p, CleanPipeline(json_to_buildings(p.buildings)))
interpolate_data(p) == Handle(p, interpolate_dict(json_to_buildings(p.buildings)))

(***************************************************************************)
(* Requests: one or two buildings of up to two columns, ServiceRows rows   *)
(***************************************************************************)
\* responses produced from one input: the first, then each resubmission
MaxRuns == 2

\* the columns sent: distinct readings that to_json writes exactly, the same
\* readings shifted by 1e-11, distinct readings closer than 1e-10, one
\* repeated reading, and no reading
Coarse == [r \in 1..ServiceRows |-> <<10 * r>>]
Shifted == [r \in 1..ServiceRows |-> <<10 * r + 1>>]
Fine == [r \in 1..ServiceRows |-> <<4 * r>>]
Flat == [r \in 1..ServiceRows |-> <<10>>]
AllNaN == [r \in 1..ServiceRows |-> NaN]
ServiceColumns == {Coarse, Shifted, Fine, Flat, AllNaN}

JsonSensor(type) == [fields |-> SensorFields, type |-> type, desc |-> "d", unit |-> "C"]
JsonSensorLists == {<<>>, <<JsonSensor("T1")>>, <<JsonSensor("T1"), JsonSensor("T2")>>}

JsonFrames ==
    {[valid |-> TRUE,
      index |-> [r \in 1..ServiceRows |-> (r - 1) * 1000],
      keys  |-> Prefix(ColumnKeys, Cardinality(DOMAIN c)),
      col   |-> c] :
        c \in UNION {[Range(Prefix(ColumnKeys, n)) -> ServiceColumns] : n \in 0..2}}

JsonBuilding(name, sensors, frame) ==
    [fields |-> BuildingFields, name |-> name, sensors |-> sensors, dataframe |-> frame]

Defects == {"no_name", "no_sensors", "no_dataframe", "bad_dataframe",
            "sensor_no_type", "sensor_no_desc", "sensor_no_unit", "not_json"}

\* the record b with one defect
Broken(b, d) ==
    CASE d = "no_name" -> [b EXCEPT !.fields = @ \ {"name"}]
      [] d = "no_sensors" -> [b EXCEPT !.fields = @ \ {"sensors"}, !.sensors = <<>>]
      [] d = "no_dataframe" -> [b EXCEPT !.fields = @ \ {"dataframe"}]
      [] d = "bad_dataframe" -> [b EXCEPT !.dataframe.valid = FALSE]
      [] d = "sensor_no_type" -> [b EXCEPT !.sensors[1].fields = @ \ {"type"}]
      [] d = "sensor_no_desc" -> [b EXCEPT !.sensors[1].fields = @ \ {"desc"}]
      [] d = "sensor_no_unit" -> [b EXCEPT !.sensors[1].fields = @ \ {"unit"}]
      [] OTHER -> b

Object(data) == [kind |-> "object", buildings |-> data]

InitService ==
    /\ \/ \E names \in {{}, {"B1"}, {"B1", "B2"}} :
            \E choice \in [names -> JsonSensorLists \X JsonFrames] :
                payload = Object([k \in names |->
                            JsonBuilding(k, choice[k][1], choice[k][2])])
       \/ \E d \in Defects, sensors \in JsonSensorLists \ {<<>>}, frame \in JsonFrames :
            payload =
                [kind |-> IF d = "not_json" THEN "not_json" ELSE "object",
                 buildings |-> [k \in {"B1"} |->
                                    Broken(JsonBuilding(k, sensors, frame), d)]]
       \/ payload = [kind |-> "empty", buildings |-> NoCollection]
    /\ status = 0
    /\ body = NoCollection
    /\ prevBody = NoCollection
    /\ handler = "none"
    /\ runs = 0
    /\ buildings = NoCollection
    /\ before = NoCollection
    /\ op = "none"
    /\ threshold = 0

\* a handler serves the pending request
Serve(name, response) ==
    /\ status = 0
    /\ handler \in {"none", name}
    /\ status' = response.status
    /\ prevBody' = body
    /\ body' = response.body
    /\ handler' = name
    /\ runs' = runs + 1
    /\ UNCHANGED <<payload, buildings, before, op, threshold>>

CleanData == Serve("clean_data", clean_data(payload))

InterpolateData == Serve("interpolate_data", interpolate_data(payload))

\* the caller sends the body of a successful response to the same operation
Resubmit ==
    /\ status = 200
    /\ runs < MaxRuns
    /\ payload' = Object(body)
    /\ status' = 0
    /\ UNCHANGED <<body, prevBody, handler, runs, buildings, before, op, threshold>>

NextService ==
    \/ CleanData
    \/ InterpolateData
    \/ Resubmit

SpecService == InitService /\ [][NextService]_vars

(***************************************************************************)
(* Vocabulary of the properties, defined apart from the passes             *)
(***************************************************************************)
\* the known (non-missing) readings of a column, in row order
RECURSIVE Known(_)
Known(column) ==
    IF column = <<>> THEN <<>>
    ELSE IF Head(column) = NaN THEN Known(Tail(column))
         ELSE <<Head(column)[1]>> \o Known(Tail(column))

\* how many positions of two equally long reading lists differ
RECURSIVE Mismatches(_, _)
Mismatches(a, b) ==
    IF a = <<>> \/ b = <<>> THEN 0
    ELSE (IF Head(a) = Head(b) THEN 0 ELSE 1) + Mismatches(Tail(a), Tail(b))

NearDuplicate(c1, c2, thr) ==
    /\ Len(Known(c1)) = Len(Known(c2))
    /\ \/ Known(c1) = Known(c2)
       \/ Mismatches(Known(c1), Known(c2)) < thr

DistinctReadings(column) == Range(Known(column))

\* column number i of building n before the last pass, and whether that
\* column is still in the table after it
Col(n, i) == before[n].dataframe.col[before[n].dataframe.keys[i]]
NumCols(n) == Len(before[n].dataframe.keys)
Survives(n, i) == before[n].dataframe.keys[i] \in Range(buildings[n].dataframe.keys)
Merged == op = "merge_duplicate_sensors"

(***************************************************************************)
(* Properties of merge_duplicate_sensors                                   *)
(***************************************************************************)
\* C3: for a threshold >= 1, when columns i < j hold the same known
\* readings (of any length, zero included), column j is gone after
\* merge_duplicate_sensors.
C3_IdenticalColumnsCollapse ==
    (Merged /\ threshold >= 1) =>
        \A n \in DOMAIN before : \A i, j \in 1..NumCols(n) :
            (i < j /\ Known(Col(n, i)) = Known(Col(n, j))) => ~Survives(n, j)

\* a merge with threshold >= 1 met two columns with the same known readings
\* at different rows and dropped the later one
C3_Witness ==
    /\ Merged /\ threshold >= 1
    /\ \E n \in DOMAIN before : \E i, j \in 1..NumCols(n) :
        /\ i < j
        /\ Col(n, i) # Col(n, j)
        /\ Known(Col(n, i)) = Known(Col(n, j))
        /\ Known(Col(n, i)) # <<>>
        /\ ~Survives(n, j)

\* C4: for every threshold, a column dropped by merge_duplicate_sensors has
\* an earlier near-duplicate with the same number of known readings, and a
\* table whose columns have pairwise different numbers of known readings is
\* left unchanged.
C4_DifferentLengthsNeverMerged ==
    Merged =>
        \A n \in DOMAIN before :
            /\ \A j \in 1..NumCols(n) :
                ~Survives(n, j) =>
                    \E i \in 1..(j - 1) :
                        /\ Len(Known(Col(n, i))) = Len(Known(Col(n, j)))
                        /\ NearDuplicate(Col(n, i), Col(n, j), threshold)
            /\ (\A i, j \in 1..NumCols(n) :
                    i # j => Len(Known(Col(n, i))) # Len(Known(Col(n, j))))
                => buildings[n] = before[n]

\* a merge with the largest threshold left alone three columns of pairwise
\* different known lengths
C4_Witness ==
    /\ Merged /\ threshold = MaxThreshold
    /\ \E n \in DOMAIN before :
        /\ NumCols(n) = 3
        /\ \A i, j \in 1..NumCols(n) :
                i # j => Len(Known(Col(n, i))) # Len(Known(Col(n, j)))
        /\ buildings[n] = before[n]

\* C8: every pair (i, j), i < j, is compared before anything is dropped: a
\* column j that is a near-duplicate of an earlier column i is dropped
\* whether or not column i is itself dropped, and a column without an
\* earlier near-duplicate stays.
C8_MarkedColumnsStillCompared ==
    Merged =>
        \A n \in DOMAIN before : \A j \in 1..NumCols(n) :
            ~Survives(n, j) <=>
                \E i \in 1..(j - 1) : NearDuplicate(Col(n, i), Col(n, j), threshold)

\* B was dropped as a near-duplicate of A, and C, a near-duplicate of B but
\* not of A, was dropped too
C8_Witness ==
    /\ Merged
    /\ \E n \in DOMAIN before :
        /\ NumCols(n) = 3
        /\ NearDuplicate(Col(n, 1), Col(n, 2), threshold)
        /\ NearDuplicate(Col(n, 2), Col(n, 3), threshold)
        /\ ~NearDuplicate(Col(n, 1), Col(n, 3), threshold)
        /\ ~Survives(n, 2)
        /\ ~Survives(n, 3)

\* C9: for a threshold <= 0, column j is dropped exactly when an earlier
\* column holds the same known readings.
C9_NonPositiveThresholdExactOnly ==
    (Merged /\ threshold <= 0) =>
        \A n \in DOMAIN before : \A j \in 1..NumCols(n) :
            ~Survives(n, j) <=>
                \E i \in 1..(j - 1) : Known(Col(n, i)) = Known(Col(n, j))

\* a merge with threshold <= 0 dropped an exact duplicate and kept two
\* equally long columns that differ in one position
C9_Witness ==
    /\ Merged /\ threshold <= 0
    /\ \E n \in DOMAIN before :
        /\ NumCols(n) = 3
        /\ Known(Col(n, 1)) = Known(Col(n, 2))
        /\ Len(Known(Col(n, 3))) = Len(Known(Col(n, 1)))
        /\ Mismatches(Known(Col(n, 1)), Known(Col(n, 3))) = 1
        /\ ~Survives(n, 2)
        /\ Survives(n, 3)

\* C10: after merge_duplicate_sensors the first column is still there, no
\* two surviving columns are near-duplicates, no column is added, and the
\* surviving columns hold the readings they held.
C10_SurvivorsPairwiseDistinct ==
    Merged =>
        \A n \in DOMAIN before :
            LET old == before[n].dataframe
                new == buildings[n].dataframe
            IN  /\ NumCols(n) > 0 => Survives(n, 1)
                /\ \A i, j \in 1..NumCols(n) :
                    (i < j /\ Survives(n, i) /\ Survives(n, j))
                        => ~NearDuplicate(Col(n, i), Col(n, j), threshold)
                /\ Range(new.keys) \subseteq Range(old.keys)
                /\ DOMAIN new.col = Range(new.keys)
                /\ \A k \in Range(new.keys) : new.col[k] = old.col[k]
                /\ new.index = old.index

\* a merge dropped a column and left two columns that are not
\* near-duplicates
C10_Witness ==
    /\ Merged /\ threshold = MaxThreshold
    /\ \E n \in DOMAIN before :
        /\ NumCols(n) = 3
        /\ Cardinality({i \in 1..3 : Survives(n, i)}) = 2

(***************************************************************************)
(* Properties of remove_unwanted_rows                                      *)
(***************************************************************************)
Filtered == op = "remove_unwanted_rows"

Interpolated == op = "interpolate_dict"

\* the gaps of a column: a missing row k between the nearest known rows p
\* and q
InnerGaps(column) ==
    {g \in (1..Len(column)) \X (1..Len(column)) \X (1..Len(column)) :
        /\ g[1] < g[2] /\ g[2] < g[3]
        /\ column[g[1]] # NaN /\ column[g[3]] # NaN
        /\ \A r \in (g[1] + 1)..(g[3] - 1) : column[r] = NaN}

\* C7 as stated: a missing value at timestamp t between the neighbouring
\* known readings (t0, v0) and (t1, v1) is filled with
\* v0 + (v1 - v0) * (t - t0) / (t1 - t0), whatever the spacing of the
\* timestamps.
C7_FilledOnTimeSegment ==
    Interpolated =>
        \A n \in DOMAIN before : \A key \in DOMAIN before[n].dataframe.col :
            LET old == before[n].dataframe.col[key]
                new == buildings[n].dataframe.col[key]
                t == [r \in DOMAIN before[n].dataframe.index |->
                        before[n].dataframe.index[r] \div 1000]
            IN  \A g \in InnerGaps(old) :
                    /\ new[g[2]] # NaN
                    /\ new[g[2]][1] * (t[g[3]] - t[g[1]]) =
                            old[g[1]][1] * (t[g[3]] - t[g[1]])
                            + (old[g[3]][1] - old[g[1]][1]) * (t[g[2]] - t[g[1]])

\* C7 as amended: a missing value at row k between the neighbouring known
\* readings at rows k0 and k1 is filled with
\* v0 + (v1 - v0) * (k - k0) / (k1 - k0), the linear segment against the
\* row position (which is the time segment when the rows are equally
\* spaced in time); known readings are left as they are.
C7_FilledOnRowSegment ==
    Interpolated =>
        \A n \in DOMAIN before : \A key \in DOMAIN before[n].dataframe.col :
            LET old == before[n].dataframe.col[key]
                new == buildings[n].dataframe.col[key]
            IN  /\ \A g \in InnerGaps(old) :
                    /\ new[g[2]] # NaN
                    /\ new[g[2]][1] * (g[3] - g[1]) =
                            old[g[1]][1] * (g[3] - g[1])
                            + (old[g[3]][1] - old[g[1]][1]) * (g[2] - g[1])
                /\ \A r \in 1..Len(old) : old[r] # NaN => new[r] = old[r]

\* the column 1, null, 3 on rows that are not equally spaced in time was
\* filled to 1, 2, 3
C7_Witness ==
    /\ Interpolated
    /\ \E n \in DOMAIN before : \E key \in DOMAIN before[n].dataframe.col :
        LET old == before[n].dataframe.col[key]
            new == buildings[n].dataframe.col[key]
            t == [r \in DOMAIN before[n].dataframe.index |->
                        before[n].dataframe.index[r] \div 1000]
        IN  /\ <<1, 2, 3>> \in InnerGaps(old)
            /\ old[1] = <<1 * Resolution>> /\ old[3] = <<3 * Resolution>>
            /\ new[2] = <<2 * Resolution>>
            /\ t[2] - t[1] # t[3] - t[2]

(***************************************************************************)
(* Properties of the request handlers                                      *)
(***************************************************************************)
Cleaned == handler = "clean_data" /\ status = 200

SensorTypes(sensors) == {sensors[i].type : i \in DOMAIN sensors}

\* every sensor of the building has a column with a known reading
NoOrphanedSensor(b) ==
    \A i \in DOMAIN b.sensors :
        /\ b.sensors[i].type \in Range(b.dataframe.keys)
        /\ Known(b.dataframe.col[b.sensors[i].type]) # <<>>

\* C1 as stated: after Clean every sensor of an output building has a
\* column with a non-missing value, and every column of its table has a
\* sensor entry, also when the input table has a column no input sensor
\* names.
C1_NoOrphans ==
    Cleaned =>
        \A n \in DOMAIN body :
            /\ NoOrphanedSensor(body[n])
            /\ Range(body[n].dataframe.keys) \subseteq SensorTypes(body[n].sensors)

\* C1 as amended: after Clean every sensor of an output building has a
\* column with a non-missing value, and every column of its table that an
\* input sensor of the building names has a sensor entry; a column that no
\* input sensor names stays in the output without one.
C1_NoOrphansAmongNamed ==
    Cleaned =>
        \A n \in DOMAIN body :
            /\ NoOrphanedSensor(body[n])
            /\ body[n].sensors # <<>>
            /\ Range(body[n].dataframe.keys) \cap SensorTypes(payload.buildings[n].sensors)
                    \subseteq SensorTypes(body[n].sensors)

\* Clean answered with a building that lost a sensor whose column was
\* dropped, and with a building that keeps a column no sensor names
C1_Witness ==
    /\ Cleaned
    /\ \E n \in DOMAIN body :
            SensorTypes(payload.buildings[n].sensors) \ SensorTypes(body[n].sensors) # {}
    /\ \E n \in DOMAIN body :
            Range(body[n].dataframe.keys) \ SensorTypes(body[n].sensors) # {}

\* C5: Clean is idempotent: Clean applied to the output of a Clean run
\* answers with the same buildings, sensor lists, columns and values.
C5_CleanIdempotent ==
    (Cleaned /\ runs = 2) => body = prevBody

\* a request body that is an object with malformed structure: a building
\* record without sensors or dataframe, a sensor record without type, desc
\* or unit, or a dataframe that is no table
MalformedStructure(p) ==
    /\ p.kind = "object"
    /\ \E n \in DOMAIN p.buildings :
        LET b == p.buildings[n]
        IN  \/ "sensors" \notin b.fields
            \/ "dataframe" \notin b.fields
            \/ "dataframe" \in b.fields /\ ~b.dataframe.valid
            \/ "sensors" \in b.fields /\ \E i \in DOMAIN b.sensors :
                    \E f \in {"type", "desc", "unit"} : f \notin b.sensors[i].fields

\* C6: a non-empty payload with malformed structure is answered with the
\* input-validation failure (400, as for an empty payload), not with the
\* generic processing failure (500), and with no partial result.
C6_MalformedIsValidationFailure ==
    (status # 0 /\ MalformedStructure(payload)) =>
        /\ status = 400
        /\ body = NoCollection

====
